---- MODULE Spec2Model ----
(***************************************************************************)
(* Model of skills/reduce-tech-debt/scripts/find_duplicate_blocks.py: the  *)
(* duplicate-block detector.  A run walks a file tree (iter_files), scans  *)
(* every yielded file with a sliding window over its normalized lines      *)
(* (compute_windows, normalize_line), accumulates the hits per digest in   *)
(* an insertion-ordered dict and prints a ranked report (main).            *)
(*                                                                         *)
(* Strings are sequences of one-character strings, so that normalization,  *)
(* suffix matching, joining and sorting act on characters as the code's    *)
(* string operations do.                                                   *)
(***************************************************************************)
EXTENDS Integers, Sequences, FiniteSets, TLC

VARIABLES
    tree,         \* the file-system snapshot below the root: a set of files
    args,         \* argparse's Namespace: window, min_chars, extensions, excludes, top
    stack,        \* os.walk's stack of directories still to list
    pending,      \* filenames of the directory being listed, not yet visited
    curdir,       \* dirpath of the directory being listed
    yielded,      \* relative paths iter_files has yielded so far, in order
    groups,       \* main's groups dict, in insertion order: <<[digest, hits]>>
    output,       \* lines printed so far
    pc,           \* "scan" while walking, "done" after the report
    run,          \* 1 for the first run over the tree, 2 for the second
    prev_output,  \* what the first run printed (<<>> during the first run)
    prev_yielded, \* what the first run's iter_files yielded
    nline,        \* normalization harness: the current line
    nprev,        \* normalization harness: the lines of the earlier passes
    npass         \* normalization harness: how often normalize_line was applied

vars == <<tree, args, stack, pending, curdir, yielded, groups, output, pc, run,
          prev_output, prev_yielded, nline, nprev, npass>>

-----------------------------------------------------------------------------
(* Bounds of the model *)

MaxLines == 3
MaxWindow == 2
MaxMinChars == 3
MaxTop == 2
MaxLineLen == 4

-----------------------------------------------------------------------------
(* Characters and strings *)

Whitespace == {" ", "\t"}

\* Code points of the characters the model uses (str comparison is by code point).
Ord(c) ==
    CASE c = "\t" -> 9
      [] c = "\n" -> 10
      [] c = " " -> 32
      [] c = "#" -> 35
      [] c = "," -> 44
      [] c = "." -> 46
      [] c = "/" -> 47
      [] c = "P" -> 80
      [] c = "a" -> 97
      [] c = "b" -> 98
      [] c = "p" -> 112
      [] c = "s" -> 115
      [] c = "v" -> 118

\* str.lower() on the model's characters.
LowerChar(c) == IF c = "P" THEN "p" ELSE c

Lower(s) == [i \in 1..Len(s) |-> LowerChar(s[i])]

\* str < str: lexicographic by code point, a proper prefix first.
RECURSIVE StrLess(_, _)
StrLess(s, t) ==
    IF t = <<>> THEN FALSE
    ELSE IF s = <<>> THEN TRUE
    ELSE IF Ord(Head(s)) # Ord(Head(t)) THEN Ord(Head(s)) < Ord(Head(t))
    ELSE StrLess(Tail(s), Tail(t))

\* str.find(pat) + 1: the 1-based index of the first occurrence of pat, 0 if none.
Find(s, pat) ==
    LET hits == {i \in 1..(Len(s) - Len(pat) + 1) : SubSeq(s, i, i + Len(pat) - 1) = pat}
    IN IF hits = {} THEN 0 ELSE CHOOSE i \in hits : \A j \in hits : i <= j

\* str.rfind(c) + 1 for a single character c.
RFind(s, c) ==
    LET hits == {i \in 1..Len(s) : s[i] = c}
    IN IF hits = {} THEN 0 ELSE CHOOSE i \in hits : \A j \in hits : i >= j

\* str.strip(): leading and trailing whitespace removed.
RECURSIVE LStrip(_)
LStrip(s) == IF s # <<>> /\ Head(s) \in Whitespace THEN LStrip(Tail(s)) ELSE s

RECURSIVE RStrip(_)
RStrip(s) ==
    IF s # <<>> /\ s[Len(s)] \in Whitespace THEN RStrip(SubSeq(s, 1, Len(s) - 1)) ELSE s

Strip(s) == RStrip(LStrip(s))

\* sep.join(parts)
RECURSIVE JoinWith(_, _)
JoinWith(sep, parts) ==
    IF parts = <<>> THEN <<>>
    ELSE IF Len(parts) = 1 THEN parts[1]
    ELSE parts[1] \o sep \o JoinWith(sep, Tail(parts))

\* str.split(c) for a single character c.
RECURSIVE Split(_, _)
Split(s, c) ==
    LET i == Find(s, <<c>>)
    IN IF i = 0 THEN <<s>>
       ELSE <<SubSeq(s, 1, i - 1)>> \o Split(SubSeq(s, i + 1, Len(s)), c)

\* seq[i:j] with Python's clamping and negative indices.
PySlice(s, i, j) ==
    LET n == Len(s)
        clamp(k) == IF k < 0 THEN (IF k + n < 0 THEN 0 ELSE k + n)
                    ELSE (IF k > n THEN n ELSE k)
    IN SubSeq(s, clamp(i) + 1, clamp(j))

\* All orders in which a listing can return the set S.
Perms(S) ==
    {p \in [1..Cardinality(S) -> S] : \A i, j \in 1..Cardinality(S) : p[i] = p[j] => i = j}

Reverse(s) == [i \in 1..Len(s) |-> s[Len(s) + 1 - i]]

-----------------------------------------------------------------------------
(* normalize_line *)

\* re.sub(pat + r".*$", "", line) on a line without line breaks: everything from
\* the first occurrence of pat to the end of the line is removed.
CutAt(line, pat) ==
    LET i == Find(line, pat) IN IF i = 0 THEN line ELSE SubSeq(line, 1, i - 1)

\* Variant of RemoveWhitespace: re.sub called with count=1, so only the first
\* whitespace run is removed.
RemoveFirstWhitespaceRun(line) ==
    LET spaces == {i \in 1..Len(line) : line[i] \in Whitespace}
    IN IF spaces = {} THEN line
       ELSE LET first == CHOOSE i \in spaces : \A j \in spaces : i <= j
                after == {i \in (first + 1)..Len(line) : line[i] \notin Whitespace}
                stop == IF after = {} THEN Len(line) + 1
                        ELSE CHOOSE i \in after : \A j \in after : i <= j
            IN SubSeq(line, 1, first - 1) \o SubSeq(line, stop, Len(line))

IsNotSpace(c) == c \notin Whitespace

\* re.sub(r"\s+", "", line): every whitespace run removed.
RemoveWhitespace(line) == SelectSeq(line, IsNotSpace)

normalize_line(line) ==
    Strip(RemoveWhitespace(CutAt(CutAt(line, <<"/", "/">>), <<"#">>)))

-----------------------------------------------------------------------------
(* compute_windows *)

\* hashlib.sha1(joined).hexdigest(): a content-equality key.  The 160-bit digest
\* is modelled as an injective tagging of the joined text (no collisions).
Digest(joined) == <<"sha1", joined>>

\* "\n".join(block)
Join(block) == JoinWith(<<"\n">>, block)

\* any(not line for line in block)
AnyEmpty(block) == \E i \in 1..Len(block) : block[i] = <<>>

\* Variant of KeepWindow: the test for an empty normalized line is missing.
KeepWindowIgnoringEmpty(block, min_chars) ==
    ~(Len(JoinWith(<<"\n">>, block)) < min_chars)

\* Variant of KeepWindow: the test against min_chars is missing.
KeepWindowIgnoringLength(block, min_chars) ==
    \A i \in 1..Len(block) : block[i] # <<>>

\* Variant of KeepWindow: the length test is off by one (min_chars - 1).
KeepWindowOffByOne(block, min_chars) ==
    /\ \A i \in 1..Len(block) : block[i] # <<>>
    /\ ~(Len(JoinWith(<<"\n">>, block)) < min_chars - 1)

\* The two `continue` tests of the loop body: TRUE when the window is appended.
KeepWindow(block, min_chars) ==
    /\ ~AnyEmpty(block)
    /\ ~(Len(Join(block)) < min_chars)

\* The loop body for idx, idx+1, ... up to range's end (exclusive).
RECURSIVE WindowsFrom(_, _, _, _)
WindowsFrom(normalized, window_size, min_chars, idx) ==
    IF idx >= Len(normalized) - window_size + 1 THEN <<>>
    ELSE LET block == PySlice(normalized, idx, idx + window_size)
             here == IF KeepWindow(block, min_chars)
                     THEN <<[digest |-> Digest(Join(block)), start |-> idx + 1]>>
                     ELSE <<>>
         IN here \o WindowsFrom(normalized, window_size, min_chars, idx + 1)

\* Variant of compute_windows: the OSError of a failed read is not turned into
\* an empty list, and the lines of the file are scanned all the same.
compute_windows_unguarded(file, window_size, min_chars) ==
    LET normalized == [i \in 1..Len(file.lines) |-> normalize_line(file.lines[i])]
    IN WindowsFrom(normalized, window_size, min_chars, 0)

compute_windows(file, window_size, min_chars) ==
    IF ~file.readable THEN <<>>
    ELSE LET normalized == [i \in 1..Len(file.lines) |-> normalize_line(file.lines[i])]
         IN WindowsFrom(normalized, window_size, min_chars, 0)

-----------------------------------------------------------------------------
(* iter_files *)

\* PurePath.suffix of a file name.
Suffix(name) ==
    LET i == RFind(name, ".")
    IN IF 1 < i /\ i < Len(name) THEN SubSeq(name, i, Len(name)) ELSE <<>>

\* path.suffix.lower() in extensions
ExtensionMatches(name, extensions) == Lower(Suffix(name)) \in extensions

\* str(path.relative_to(root))
RelPath(dirs, name) == JoinWith(<<"/">>, dirs \o <<name>>)

FilesIn(t, dirpath) == {f \in t : f.dirs = dirpath}

SubdirsOf(t, dirpath) ==
    {f.dirs[Len(dirpath) + 1] : f \in {g \in t : /\ Len(g.dirs) > Len(dirpath)
                                                  /\ SubSeq(g.dirs, 1, Len(dirpath)) = dirpath}}

IsNotExcluded(d) == d \notin args.excludes

\* parse_csv_set
parse_csv_set(raw) ==
    LET items == Split(raw, ",")
    IN {Strip(items[i]) : i \in {j \in 1..Len(items) : Strip(items[j]) # <<>>}}

-----------------------------------------------------------------------------
(* main: accumulation *)

DigestIndex(g, digest) ==
    LET hits == {i \in 1..Len(g) : g[i].digest = digest}
    IN IF hits = {} THEN 0 ELSE CHOOSE i \in hits : TRUE

\* Variant of AppendHit: the list of a known digest is replaced, not appended to.
AppendHitOverwrite(g, digest, hit) ==
    LET i == DigestIndex(g, digest)
    IN IF i = 0 THEN Append(g, [digest |-> digest, hits |-> <<hit>>])
       ELSE [g EXCEPT ![i].hits = <<hit>>]

\* groups[digest].append(WindowHit(path=rel, start=start_line)) on a defaultdict(list)
AppendHit(g, digest, hit) ==
    LET i == DigestIndex(g, digest)
    IN IF i = 0 THEN Append(g, [digest |-> digest, hits |-> <<hit>>])
       ELSE [g EXCEPT ![i].hits = Append(@, hit)]

RECURSIVE AddWindows(_, _, _)
AddWindows(g, rel, windows) ==
    IF windows = <<>> THEN g
    ELSE AddWindows(AppendHit(g, Head(windows).digest,
                              [path |-> rel, start |-> Head(windows).start]),
                    rel, Tail(windows))

-----------------------------------------------------------------------------
(* main: report *)

IsDuplicate(entry) == Len(entry.hits) > 1

\* list.sort(key=len, reverse=True): stable, so entries of equal length keep
\* the order they had.
RECURSIVE InsertByLen(_, _)
InsertByLen(sorted, hits) ==
    IF sorted = <<>> THEN <<hits>>
    ELSE IF Len(Head(sorted)) >= Len(hits)
         THEN <<Head(sorted)>> \o InsertByLen(Tail(sorted), hits)
         ELSE <<hits>> \o sorted

RECURSIVE SortByLenDesc(_)
SortByLenDesc(lists) ==
    IF lists = <<>> THEN <<>>
    ELSE InsertByLen(SortByLenDesc(SubSeq(lists, 1, Len(lists) - 1)), lists[Len(lists)])

\* duplicates = [hits for hits in groups.values() if len(hits) > 1], then sorted
Duplicates(g) ==
    LET dups == SelectSeq(g, IsDuplicate)
    IN SortByLenDesc([i \in 1..Len(dups) |-> dups[i].hits])

\* {(h.path, h.start) for h in hits}
UniqueLocations(hits) == {<<hits[i].path, hits[i].start>> : i \in 1..Len(hits)}

\* tuple < tuple for (path, start)
LocLess(a, b) == StrLess(a[1], b[1]) \/ (a[1] = b[1] /\ a[2] < b[2])

\* sorted(unique_locations)
RECURSIVE SortedLocations(_)
SortedLocations(locs) ==
    IF locs = {} THEN <<>>
    ELSE LET m == CHOOSE a \in locs : \A b \in locs \ {a} : LocLess(a, b)
         IN <<m>> \o SortedLocations(locs \ {m})

\* Variant of GroupSizeLine: the size counts the files, not the locations.
GroupSizeLineFiles(hits) ==
    <<"Group size", Cardinality({hits[i].path : i \in 1..Len(hits)})>>

\* print(f"\nGroup size: {len(unique_locations)}")
GroupSizeLine(hits) == <<"Group size", Cardinality(UniqueLocations(hits))>>

\* The lines one shown group prints.
GroupLines(hits) ==
    LET locs == SortedLocations(UniqueLocations(hits))
    IN <<GroupSizeLine(hits)>> \o [i \in 1..Len(locs) |-> <<"-", locs[i][1], locs[i][2]>>]

\* Variant of TopReached: > in place of >=.
TopReachedLate(shown, top) == shown > top

\* if shown >= args.top: break
TopReached(shown, top) == shown >= top

\* The loop over duplicates, from position i with `shown` groups printed.
RECURSIVE PrintGroups(_, _, _, _)
PrintGroups(dups, i, shown, top) ==
    IF i > Len(dups) THEN <<>>
    ELSE IF TopReached(shown, top) THEN <<>>
    ELSE IF Cardinality(UniqueLocations(dups[i])) < 2 THEN PrintGroups(dups, i + 1, shown, top)
    ELSE GroupLines(dups[i]) \o PrintGroups(dups, i + 1, shown + 1, top)

\* Everything main prints after the scan.
ReportLines(g, top) ==
    LET dups == Duplicates(g)
    IN <<(<<"Scanned root">>), (<<"Duplicate groups", Len(dups)>>)>>
       \o (IF dups = <<>> THEN <<>> ELSE PrintGroups(dups, 1, 0, top))

-----------------------------------------------------------------------------
(* Inputs *)

NameA == <<"a", ".", "p">>
NameB == <<"b", ".", "p">>

\* Raw lines of the scanned files: plain text, text with inner whitespace, a
\* trailing comment, and a line that is only a comment.
RawLines == { <<"a">>, <<"b", " ", "b">>, <<"/", "/", "a">> }

Contents == UNION {[1..n -> RawLines] : n \in 0..MaxLines}

MkFile(dirs, name, lines) ==
    [dirs |-> dirs, name |-> name, lines |-> lines, readable |-> TRUE]

MkArgs(w, mc, exts, excl, top) ==
    [window |-> w, min_chars |-> mc, extensions |-> exts, excludes |-> excl, top |-> top]

StartOfRun ==
    /\ stack = << <<>> >>
    /\ pending = <<>>
    /\ curdir = <<>>
    /\ yielded = <<>>
    /\ groups = <<>>
    /\ output = <<>>
    /\ pc = "scan"

NormIdle == nline = <<>> /\ nprev = <<>> /\ npass = 0

\* Two files in the root, both with a scanned extension: a.p with up to MaxLines
\* lines, b.p with up to two.
Init ==
    /\ \E c1, c2 \in Contents :
          /\ Len(c2) <= 2
          /\ tree = {MkFile(<<>>, NameA, c1), MkFile(<<>>, NameB, c2)}
    /\ \E w \in 1..MaxWindow, mc \in 1..MaxMinChars, top \in 0..MaxTop :
          args = MkArgs(w, mc, parse_csv_set(<<".", "p">>), parse_csv_set(<<"v">>), top)
    /\ StartOfRun
    /\ run = 1 /\ prev_output = <<>> /\ prev_yielded = <<>>
    /\ NormIdle

\* File names, directory names and the --extensions / --exclude-dirs values of
\* the walk specification.
WalkNames == { <<"a", ".", "p">>, <<"a", ".", "P">>, <<"a", ".", "b">>, <<"a">> }
WalkDirNames == { <<"s">>, <<"v">> }
ExtensionArgs == { <<".", "p">>, <<".", "P">>, <<".", "b", ",", " ", ".", "p">> }
ExcludeArgs == { <<"v">>, <<",">> }

\* One file in the root, one in a subdirectory, one two levels down; every file
\* holds the same single line, so every scanned file joins one duplicate group.
InitWalk ==
    /\ \E n1, n2, n3 \in WalkNames, d1, d2 \in WalkDirNames :
          tree = {MkFile(<<>>, n1, << <<"a">> >>),
                  MkFile(<<d1>>, n2, << <<"a">> >>),
                  MkFile(<<d1, d2>>, n3, << <<"a">> >>)}
    /\ \E e \in ExtensionArgs, x \in ExcludeArgs :
          args = MkArgs(1, 1, parse_csv_set(e), parse_csv_set(x), MaxTop)
    /\ StartOfRun
    /\ run = 1 /\ prev_output = <<>> /\ prev_yielded = <<>>
    /\ NormIdle

NameC == <<"c", ".", "p">>

\* The two files of Init, each of which may fail to open or read, and a third
\* file whose read always fails.
InitRead ==
    /\ \E c1, c2 \in Contents, r1, r2 \in BOOLEAN :
          /\ Len(c2) <= 2
          /\ tree = {[MkFile(<<>>, NameA, c1) EXCEPT !.readable = r1],
                     [MkFile(<<>>, NameB, c2) EXCEPT !.readable = r2],
                     [MkFile(<<>>, NameC, << <<"a">> >>) EXCEPT !.readable = FALSE]}
    /\ \E w \in 1..MaxWindow :
          args = MkArgs(w, 1, parse_csv_set(<<".", "p">>), parse_csv_set(<<"v">>), MaxTop)
    /\ StartOfRun
    /\ run = 1 /\ prev_output = <<>> /\ prev_yielded = <<>>
    /\ NormIdle

\* The --window values below one that argparse's type=int lets through.
BadWindows == (1 - MaxWindow)..0

\* The two files of Init, scanned with a window size below one.
InitBadWindow ==
    /\ \E c1, c2 \in Contents :
          /\ Len(c2) <= 2
          /\ tree = {MkFile(<<>>, NameA, c1), MkFile(<<>>, NameB, c2)}
    /\ \E w \in BadWindows, mc \in 0..MaxMinChars :
          args = MkArgs(w, mc, parse_csv_set(<<".", "p">>), parse_csv_set(<<"v">>), MaxTop)
    /\ StartOfRun
    /\ run = 1 /\ prev_output = <<>> /\ prev_yielded = <<>>
    /\ NormIdle

\* Raw lines handed to normalize_line: every string of up to MaxLineLen characters.
NormAlphabet == {"a", "/", "#", " "}
NormLines == UNION {[1..n -> NormAlphabet] : n \in 0..MaxLineLen}

InitNorm ==
    /\ nline \in NormLines
    /\ nprev = <<>>
    /\ npass = 0
    /\ tree = {}
    /\ args = MkArgs(1, 1, {}, {}, 0)
    /\ stack = <<>> /\ pending = <<>> /\ curdir = <<>> /\ yielded = <<>>
    /\ groups = <<>> /\ output = <<>> /\ pc = "norm"
    /\ run = 1 /\ prev_output = <<>> /\ prev_yielded = <<>>

-----------------------------------------------------------------------------
(* Actions *)

WalkState == <<stack, pending, curdir>>
PrevRun == <<run, prev_output, prev_yielded>>
NormVars == <<nline, nprev, npass>>

\* os.walk pops the next directory, lists it (in whatever order scandir returns
\* the entries), iter_files prunes the excluded directory names, and the kept
\* subdirectories are pushed for later, first one on top.
WalkDir ==
    /\ pc = "scan"
    /\ pending = <<>>
    /\ stack # <<>>
    /\ LET top == stack[Len(stack)]
       IN \E dirnames \in Perms(SubdirsOf(tree, top)),
             filenames \in Perms({f.name : f \in FilesIn(tree, top)}) :
             LET kept == SelectSeq(dirnames, IsNotExcluded)
                 pushed == [i \in 1..Len(kept) |-> top \o <<kept[i]>>]
             IN /\ stack' = SubSeq(stack, 1, Len(stack) - 1) \o Reverse(pushed)
                /\ pending' = filenames
                /\ curdir' = top
    /\ UNCHANGED <<tree, args, yielded, groups, output, pc, PrevRun, NormVars>>

\* One iteration of iter_files' inner loop; a yielded path is scanned by main's
\* loop body before the generator resumes.
VisitFile ==
    /\ pc = "scan"
    /\ pending # <<>>
    /\ LET name == Head(pending)
           file == CHOOSE f \in tree : f.dirs = curdir /\ f.name = name
           rel == RelPath(curdir, name)
       IN IF ExtensionMatches(name, args.extensions)
          THEN /\ yielded' = Append(yielded, rel)
               /\ groups' = AddWindows(groups, rel,
                                       compute_windows(file, args.window, args.min_chars))
          ELSE UNCHANGED <<yielded, groups>>
    /\ pending' = Tail(pending)
    /\ UNCHANGED <<tree, args, stack, curdir, output, pc, PrevRun, NormVars>>

\* The walk is exhausted: main filters, sorts and prints.
Report ==
    /\ pc = "scan"
    /\ pending = <<>>
    /\ stack = <<>>
    /\ output' = ReportLines(groups, args.top)
    /\ pc' = "done"
    /\ UNCHANGED <<tree, args, WalkState, yielded, groups, PrevRun, NormVars>>

\* The program is started again with the same arguments on the unchanged tree.
Rerun ==
    /\ pc = "done"
    /\ run = 1
    /\ run' = 2
    /\ prev_output' = output
    /\ prev_yielded' = yielded
    /\ stack' = << <<>> >>
    /\ pending' = <<>>
    /\ curdir' = <<>>
    /\ yielded' = <<>>
    /\ groups' = <<>>
    /\ output' = <<>>
    /\ pc' = "scan"
    /\ UNCHANGED <<tree, args, NormVars>>

\* The program is started again with the same arguments on the tree without the
\* files that cannot be read.
RerunWithoutUnreadable ==
    /\ pc = "done"
    /\ run = 1
    /\ run' = 2
    /\ prev_output' = output
    /\ prev_yielded' = yielded
    /\ tree' = {f \in tree : f.readable}
    /\ stack' = << <<>> >>
    /\ pending' = <<>>
    /\ curdir' = <<>>
    /\ yielded' = <<>>
    /\ groups' = <<>>
    /\ output' = <<>>
    /\ pc' = "scan"
    /\ UNCHANGED <<args, NormVars>>

\* normalize_line applied to the line at hand, keeping what it was applied to.
NormalizeStep ==
    /\ pc = "norm"
    /\ npass < 2
    /\ nprev' = Append(nprev, nline)
    /\ nline' = normalize_line(nline)
    /\ npass' = npass + 1
    /\ UNCHANGED <<tree, args, WalkState, yielded, groups, output, pc, PrevRun>>

Next == WalkDir \/ VisitFile \/ Report

NextRerun == WalkDir \/ VisitFile \/ Report \/ Rerun

NextRead == WalkDir \/ VisitFile \/ Report \/ RerunWithoutUnreadable

NextNorm == NormalizeStep

\* One run over two files in the root.
Spec == Init /\ [][Next]_vars

\* Two runs, one after the other, over the same two files.
SpecRerun == Init /\ [][NextRerun]_vars

\* One run over a tree with nested directories and varying names and filters.
SpecWalk == InitWalk /\ [][Next]_vars

\* One run over two files that may be unreadable, then one run without them.
SpecRead == InitRead /\ [][NextRead]_vars

\* One run started with a window size below one.
SpecBadWindow == InitBadWindow /\ [][Next]_vars

\* normalize_line applied twice to one line.
SpecNorm == InitNorm /\ [][NextNorm]_vars

-----------------------------------------------------------------------------
(* Vocabulary of the properties *)

\* The window locations of a file: 0-based start indices of its W-line windows.
WindowStarts(f) == 0..(Len(f.lines) - args.window)

\* The normalized lines of the window of f starting at 0-based index idx.
NormWindow(f, idx) ==
    [k \in 1..args.window |-> normalize_line(f.lines[idx + k])]

\* A location as the report names it: relative path and 1-based start line.
Loc(f, idx) == <<RelPath(f.dirs, f.name), idx + 1>>

\* All window locations of the tree, as <<file, idx>>.
AllWindows == UNION {{<<f, idx>> : idx \in WindowStarts(f)} : f \in tree}

HasEmptyLine(w) == \E k \in 1..args.window : normalize_line(w[1].lines[w[2] + k]) = <<>>

JoinedLength(w) == Len(Join(NormWindow(w[1], w[2])))

\* The window qualifies: no empty normalized line and joined length >= minChars.
Qualifies(w) == ~HasEmptyLine(w) /\ JoinedLength(w) >= args.min_chars

\* The locations recorded in the index so far.
RecordedLocs == UNION {UniqueLocations(groups[i].hits) : i \in 1..Len(groups)}

\* The report read back: the positions of its "Group size" lines, and for each
\* the size it states and the occurrence lines printed under it.
GroupStarts(out) == {i \in 1..Len(out) : out[i][1] = "Group size"}

GroupEnd(out, i) ==
    LET later == {j \in GroupStarts(out) : j > i}
    IN IF later = {} THEN Len(out)
       ELSE (CHOOSE j \in later : \A k \in later : j <= k) - 1

PrintedGroupAt(out, i) ==
    [size |-> out[i][2],
     locs |-> [k \in 1..(GroupEnd(out, i) - i) |-> <<out[i + k][2], out[i + k][3]>>]]

PrintedGroups(out) ==
    LET starts == GroupStarts(out)
        nth(k) == CHOOSE i \in starts : Cardinality({j \in starts : j < i}) = k - 1
    IN [k \in 1..Cardinality(starts) |-> PrintedGroupAt(out, nth(k))]

LocSet(pg) == {pg.locs[k] : k \in 1..Len(pg.locs)}

PrintedLocs(out) ==
    LET printed == PrintedGroups(out)
    IN UNION {LocSet(printed[k]) : k \in 1..Len(printed)}

\* The locations recorded in the index or printed in the report.
SeenLocs == RecordedLocs \cup PrintedLocs(output)

\* The N of the header line "Duplicate groups: N".
HeaderCount(out) == out[2][2]

\* How many printed groups list both locations.
PrintedTogether(out, a, b) ==
    LET printed == PrintedGroups(out)
    IN Cardinality({k \in 1..Len(printed) : {a, b} \subseteq LocSet(printed[k])})

\* The ranks (positions in the sorted duplicates list) of the groups holding both.
RanksTogether(a, b) ==
    LET dups == Duplicates(groups)
    IN {r \in 1..Len(dups) : {a, b} \subseteq UniqueLocations(dups[r])}

\* The qualifying windows, each with its normalized lines.
QualifyingWindows ==
    {<<w, NormWindow(w[1], w[2])>> : w \in {x \in AllWindows : Qualifies(x)}}

\* The pairs <<v, w>> of distinct qualifying locations with the same normalized
\* window.
EqualPairs ==
    LET q == QualifyingWindows
    IN {<<z[1][1], z[2][1]>> : z \in {y \in q \X q : y[1][1] # y[2][1] /\ y[1][2] = y[2][2]}}

-----------------------------------------------------------------------------
(* C1 *)

\* C1 as stated: after a run, any two distinct locations whose windows normalize
\* to the same qualifying sequence are listed together in exactly one printed
\* group, for every value of --top.
C1_AlwaysPrintedTogether ==
    pc = "done" =>
        \A e \in EqualPairs :
            PrintedTogether(output, Loc(e[1][1], e[1][2]), Loc(e[2][1], e[2][2])) = 1

\* C1 amended: after a run, any two distinct locations whose windows normalize to
\* the same qualifying sequence lie together in exactly one duplicate group of
\* the index; the report prints that group, once, exactly when its rank in the
\* sorted list is within --top, and no other printed group lists both.
C1_GroupedTogether ==
    pc = "done" =>
        \A e \in EqualPairs :
            LET a == Loc(e[1][1], e[1][2])
                b == Loc(e[2][1], e[2][2])
                ranks == RanksTogether(a, b)
            IN /\ Cardinality(ranks) = 1
               /\ PrintedTogether(output, a, b) =
                     (IF \E r \in ranks : r <= args.top THEN 1 ELSE 0)

\* C1's case: a finished run with an equal pair whose group was printed and an
\* equal pair whose group was cut by --top.
C1_Witness ==
    /\ pc = "done"
    /\ \E e \in EqualPairs :
          PrintedTogether(output, Loc(e[1][1], e[1][2]), Loc(e[2][1], e[2][2])) = 1
    /\ \E e \in EqualPairs :
          PrintedTogether(output, Loc(e[1][1], e[1][2]), Loc(e[2][1], e[2][2])) = 0

-----------------------------------------------------------------------------
(* C2 *)

\* C2: every printed group lists at least 2 distinct (path, startLine) pairs, no
\* pair twice, and its "Group size" line states the number of pairs listed.
C2_GroupsHaveTwo ==
    LET printed == PrintedGroups(output)
    IN \A k \in 1..Len(printed) :
          /\ Cardinality(LocSet(printed[k])) >= 2
          /\ Cardinality(LocSet(printed[k])) = Len(printed[k].locs)
          /\ printed[k].size = Cardinality(LocSet(printed[k]))

\* C2's case: a printed group whose occurrences all lie in one file.
C2_Witness ==
    /\ pc = "done"
    /\ \E k \in 1..Len(PrintedGroups(output)) :
          LET pg == PrintedGroups(output)[k]
          IN /\ pg.size >= 2
             /\ \A i, j \in 1..Len(pg.locs) : pg.locs[i][1] = pg.locs[j][1]

-----------------------------------------------------------------------------
(* C5 *)

\* C5: a window location with a line that normalizes to the empty string is
\* never recorded in the index and never printed.
C5_EmptyLineNeverRecorded ==
    LET seen == SeenLocs
    IN \A w \in AllWindows :
          Loc(w[1], w[2]) \in seen => ~HasEmptyLine(w)

\* C5's case: a scanned file with a two-line window made of an empty normalized
\* line and a non-empty one long enough for --min-chars, in a finished run that
\* printed a group.
C5_Witness ==
    /\ pc = "done"
    /\ args.window = 2
    /\ PrintedLocs(output) # {}
    /\ \E w \in AllWindows :
          /\ HasEmptyLine(w)
          /\ JoinedLength(w) >= args.min_chars
          /\ RelPath(w[1].dirs, w[1].name) \in {yielded[i] : i \in 1..Len(yielded)}

-----------------------------------------------------------------------------
(* C6 *)

\* C6: a window location whose normalized lines joined with "\n" are shorter
\* than minChars is never recorded in the index and never printed.
C6_ShortNeverRecorded ==
    LET seen == SeenLocs
    IN \A w \in AllWindows :
          Loc(w[1], w[2]) \in seen => ~(JoinedLength(w) < args.min_chars)

\* C6's case: a finished run in which a too-short window without empty lines
\* occurs at two locations while another group was printed.
C6_Witness ==
    /\ pc = "done"
    /\ PrintedLocs(output) # {}
    /\ \E v, w \in AllWindows :
          /\ v # w
          /\ ~HasEmptyLine(v)
          /\ JoinedLength(v) < args.min_chars
          /\ NormWindow(v[1], v[2]) = NormWindow(w[1], w[2])

-----------------------------------------------------------------------------
(* C7 *)

\* The lengths of the lines, added up.
RECURSIVE SumLen(_)
SumLen(parts) == IF parts = <<>> THEN 0 ELSE Len(Head(parts)) + SumLen(Tail(parts))

\* The normalized lines of the window a recorded location (path, start) names.
LinesAt(loc) ==
    LET f == CHOOSE g \in tree : RelPath(g.dirs, g.name) = loc[1]
    IN NormWindow(f, loc[2] - 1)

\* C7 as stated: every recorded window has normalized lines whose lengths sum,
\* without separators, to at least minChars.
C7_ConcatAtLeastMin ==
    \A loc \in RecordedLocs :
        SumLen(LinesAt(loc)) >= args.min_chars

\* C7 amended: every recorded window has normalized lines whose lengths plus one
\* separator between consecutive lines (W - 1 in all) sum to at least minChars.
C7_SumPlusSeparatorsAtLeastMin ==
    \A loc \in RecordedLocs :
        SumLen(LinesAt(loc)) + (args.window - 1)
            >= args.min_chars

\* C7's case: a recorded two-line window that reaches minChars only by its
\* separator.
C7_Witness ==
    \E loc \in RecordedLocs :
        /\ args.window = 2
        /\ SumLen(LinesAt(loc)) + 1 = args.min_chars

-----------------------------------------------------------------------------
(* C10 *)

\* The digests of the index with at least 2 unique (path, startLine) occurrences.
DuplicateDigests ==
    {i \in 1..Len(groups) : Cardinality(UniqueLocations(groups[i].hits)) >= 2}

Min(a, b) == IF a < b THEN a ELSE b

\* C10: after a run the header states the number of digests with at least 2
\* unique occurrences, whatever --top is; exactly min(top, N) groups are printed;
\* and every group left unprinted has at most as many unique occurrences as each
\* printed one.
C10_TopOnlyCaps ==
    pc = "done" =>
        LET n == Cardinality(DuplicateDigests)
            printed == PrintedGroups(output)
        IN /\ HeaderCount(output) = n
           /\ Len(printed) = Min(args.top, n)
           /\ \A i \in DuplicateDigests :
                 UniqueLocations(groups[i].hits) \notin {LocSet(printed[k]) : k \in 1..Len(printed)}
                 => \A k \in 1..Len(printed) :
                        Cardinality(UniqueLocations(groups[i].hits)) <= printed[k].size

\* C10's case: a finished run with --top 1 and two duplicate groups of different
\* sizes, the smaller one entered into the index first.
C10_Witness ==
    /\ pc = "done"
    /\ args.top = 1
    /\ HeaderCount(output) = 2
    /\ \E i, j \in DuplicateDigests :
          /\ i < j
          /\ Len(groups[i].hits) < Len(groups[j].hits)

-----------------------------------------------------------------------------
(* C4 *)

\* The positions at which "//" starts in a line.
SlashSlashAt(line) ==
    {i \in 1..(Len(line) - 1) : line[i] = "/" /\ line[i + 1] = "/"}

\* C4 as stated: a second normalize_line returns the first pass's result.
C4_Idempotent ==
    npass = 2 => nline = nprev[2]

\* C4 amended: a second normalize_line returns the first pass's result cut at
\* its first "//": the result itself when it holds no "//", and otherwise (the
\* raw line had two "/" separated only by whitespace) the text before it.
C4_IdempotentUpToSlashSlash ==
    npass = 2 =>
        LET y == nprev[2]
        IN IF SlashSlashAt(y) = {} THEN nline = y
           ELSE nline = SubSeq(y, 1, (CHOOSE i \in SlashSlashAt(y) :
                                         \A j \in SlashSlashAt(y) : i <= j) - 1)

\* C4's case: the first pass removed a comment and whitespace, its result holds
\* no "//", and the second pass returned it unchanged.
C4_Witness ==
    /\ npass = 2
    /\ Len(nprev[2]) > 0
    /\ Len(nprev[2]) + 2 <= Len(nprev[1])
    /\ \E i \in 1..Len(nprev[1]) : nprev[1][i] = "#"
    /\ \E i \in 1..Len(nprev[1]) : nprev[1][i] = " "
    /\ SlashSlashAt(nprev[2]) = {}
    /\ nline = nprev[2]

-----------------------------------------------------------------------------
(* C3 *)

\* C3: a second run over the unchanged tree prints exactly what the first run
\* printed, whatever order the walk lists the entries in.
C3_SameOutputOnRerun ==
    (pc = "done" /\ run = 2) => output = prev_output

-----------------------------------------------------------------------------
(* C9 *)

\* The position of the printed group with these locations, 0 if it is not there.
PositionOf(out, locs) ==
    LET at == {k \in 1..Len(PrintedGroups(out)) : PrintedGroups(out)[k].locs = locs}
    IN IF at = {} THEN 0 ELSE CHOOSE k \in at : TRUE

\* C9: groups are printed by descending size; the order of groups of equal size
\* is fixed by the groups alone, so two groups printed by both runs come in the
\* same order in both; and each group's occurrences are sorted by path, then by
\* start line.
C9_OrderFromGroupsAlone ==
    pc = "done" =>
        LET printed == PrintedGroups(output)
        IN /\ \A i, j \in 1..Len(printed) : i < j => printed[i].size >= printed[j].size
           /\ \A k \in 1..Len(printed) :
                 \A i, j \in 1..Len(printed[k].locs) :
                     i < j => LocLess(printed[k].locs[i], printed[k].locs[j])
           /\ run = 2 =>
                 \A i, j \in 1..Len(printed) :
                     (/\ i < j
                      /\ PositionOf(prev_output, printed[i].locs) # 0
                      /\ PositionOf(prev_output, printed[j].locs) # 0)
                     => PositionOf(prev_output, printed[i].locs)
                            < PositionOf(prev_output, printed[j].locs)

-----------------------------------------------------------------------------
(* C8 *)

\* The name ends with the extension, compared case-insensitively.
EndsWithIgnoringCase(name, ext) ==
    /\ Len(ext) <= Len(name)
    /\ Lower(SubSeq(name, Len(name) - Len(ext) + 1, Len(name))) = Lower(ext)

\* The file has recorded at least one occurrence in the index.
Contributes(f) == \E loc \in RecordedLocs : loc[1] = RelPath(f.dirs, f.name)

\* C8: after a run, a file has contributed occurrences if and only if its name
\* ends, ignoring case, with a configured extension and no directory on its path
\* below the root bears an excluded name.  (Every file of this specification
\* holds one qualifying window, so a scanned file always contributes.)
C8_ContributesIffFiltersPass ==
    pc = "done" =>
        \A f \in tree :
            Contributes(f) <=>
                /\ \E ext \in args.extensions : EndsWithIgnoringCase(f.name, ext)
                /\ \A k \in 1..Len(f.dirs) : f.dirs[k] \notin args.excludes

-----------------------------------------------------------------------------
(* C11 *)

\* main's exit status: 0 once it has returned, -1 while it runs.
ExitStatus == IF pc = "done" THEN 0 ELSE -1

\* The paths of the tree's files.
TreePaths == {RelPath(f.dirs, f.name) : f \in tree}

IsTreePath(p) == p \in TreePaths

\* The paths of the files that fail to open or read.
UnreadablePaths == {RelPath(f.dirs, f.name) : f \in {g \in tree : ~g.readable}}

\* The locations of the qualifying windows of the files that can be read.
ReadableQualifyingLocs ==
    {Loc(w[1], w[2]) : w \in {x \in AllWindows : x[1].readable /\ Qualifies(x)}}

YieldedPaths == {yielded[i] : i \in 1..Len(yielded)}

\* C11: a file whose read fails records and prints no occurrence; the scan goes
\* on past it, so that at the end every file was visited and the index holds
\* exactly the qualifying windows of the files that could be read; and the
\* report of a run over the tree with failing files equals the report of a run
\* over the tree without them, the remaining files being listed in the same
\* order; main has then returned 0.
C11_ReadFailureIsLocal ==
    /\ \A loc \in SeenLocs : loc[1] \notin UnreadablePaths
    /\ pc = "done" =>
          /\ ExitStatus = 0
          /\ YieldedPaths = TreePaths
          /\ RecordedLocs = ReadableQualifyingLocs
    /\ (pc = "done" /\ run = 2 /\ yielded = SelectSeq(prev_yielded, IsTreePath))
          => output = prev_output

\* C11's case: the first run met a file that could not be read next to two that
\* could, and printed a group; the second run, without the failing file, has
\* finished with status 0 and the same report.
C11_Witness ==
    /\ run = 2
    /\ ExitStatus = 0
    /\ Len(prev_yielded) = 3
    /\ Len(yielded) = 2
    /\ Len(prev_output) > 2
    /\ output = prev_output

-----------------------------------------------------------------------------
(* C12 *)

\* C12: a run started with a window size below one scans no file, records no
\* window, reports no group and never returns 0.
C12_BadWindowRejected ==
    args.window < 1 =>
        /\ yielded = <<>>
        /\ groups = <<>>
        /\ PrintedGroups(output) = <<>>
        /\ ExitStatus # 0

====
